---- MODULE Spec2Model ----
(***************************************************************************)
(* Model of the collision-avoidance harness (Simulation, Renderer, App).   *)
(*                                                                         *)
(* Numbers.  A C++ float is modelled in fixed point: the integer v stands  *)
(* for v / 100 (so radius 1.5f is 150), and every product or quotient is   *)
(* rounded toward zero, standing for the float rounding of the code.  The  *)
(* IEEE values +inf, -inf and NaN are three reserved integers; they arise  *)
(* only from a division by zero and propagate as IEEE prescribes.          *)
(* An RVO::Vector2 is a pair <<x, y>> of such numbers.                     *)
(*                                                                         *)
(* The RVO solver and the UI toolkit are external libraries; they are      *)
(* modelled by what the harness passes to them and reads back.             *)
(***************************************************************************)
EXTENDS Integers, Sequences, FiniteSets, TLC

(***************************************************************************)
(* Bounds of the model                                                     *)
(***************************************************************************)
\* Largest agent count the "Number of Agents" slider offers in the model
\* (the program's slider ends at 500).
MaxAgents == 3
\* Agent count of the default configuration in the model (the program's is 250).
DefaultNumAgents == 2
\* Most vertices the user places in all: staged and committed together.
MaxVertices == 6
\* Largest camera scale (in hundredths) and offset (in hundredths of a pixel)
\* the user's scroll and drag gestures reach.
MaxScale == 300
MaxOffset == 100000

(***************************************************************************)
(* Fixed-point floats                                                      *)
(***************************************************************************)
Unit == 100
PosInf == 1000000000
NegInf == -1000000000
NaN == 2000000000

IsNaN(a) == a = NaN
IsInf(a) == a = PosInf \/ a = NegInf

Sign(a) == IF a > 0 THEN 1 ELSE IF a < 0 THEN -1 ELSE 0

\* Integer quotient rounded toward zero (b # 0).
TruncDiv(a, b) ==
  LET q == (IF a < 0 THEN -a ELSE a) \div (IF b < 0 THEN -b ELSE b)
  IN IF Sign(a) * Sign(b) < 0 THEN -q ELSE q

FNeg(a) ==
  IF IsNaN(a) THEN NaN
  ELSE IF a = PosInf THEN NegInf
  ELSE IF a = NegInf THEN PosInf
  ELSE -a

FAdd(a, b) ==
  IF IsNaN(a) \/ IsNaN(b) THEN NaN
  ELSE IF IsInf(a) /\ IsInf(b) THEN (IF a = b THEN a ELSE NaN)
  ELSE IF IsInf(a) THEN a
  ELSE IF IsInf(b) THEN b
  ELSE a + b

FSub(a, b) == FAdd(a, FNeg(b))

FMul(a, b) ==
  IF IsNaN(a) \/ IsNaN(b) THEN NaN
  ELSE IF IsInf(a) \/ IsInf(b)
    THEN (IF Sign(a) * Sign(b) = 0 THEN NaN
          ELSE IF Sign(a) * Sign(b) > 0 THEN PosInf ELSE NegInf)
  ELSE TruncDiv(a * b, Unit)

\* IEEE quotient: x / 0 is +-inf, 0 / 0 is NaN.  The model's zero is +0.
FDiv(a, b) ==
  IF IsNaN(a) \/ IsNaN(b) THEN NaN
  ELSE IF IsInf(a) /\ IsInf(b) THEN NaN
  ELSE IF IsInf(a) THEN (IF Sign(a) * Sign(b) < 0 THEN NegInf ELSE PosInf)
  ELSE IF IsInf(b) THEN 0
  ELSE IF b = 0
    THEN (IF a = 0 THEN NaN ELSE IF a > 0 THEN PosInf ELSE NegInf)
  ELSE TruncDiv(a * Unit, b)

\* Conversion of a C++ integer to float.
ToFloat(n) == n * Unit

(***************************************************************************)
(* RVO::Vector2                                                            *)
(***************************************************************************)
Vector2(x, y) == <<x, y>>
VNeg(v) == <<FNeg(v[1]), FNeg(v[2])>>
VSub(a, b) == <<FSub(a[1], b[1]), FSub(a[2], b[2])>>
VAdd(a, b) == <<FAdd(a[1], b[1]), FAdd(a[2], b[2])>>
\* float * Vector2
VScale(s, v) == <<FMul(s, v[1]), FMul(s, v[2])>>
\* Vector2 / float: each component over s, rounded once.  (The library
\* multiplies by 1.0f / s, which agrees with the quotient to the precision of
\* a float; a reciprocal rounded to hundredths would not.)
VDiv(v, s) == <<FDiv(v[1], s), FDiv(v[2], s)>>

\* std::cos and std::sin of 360 * i / n degrees, in hundredths.
CosDeg(d) ==
  CASE d = 0 -> 100 [] d = 60 -> 50 [] d = 72 -> 31 [] d = 90 -> 0
    [] d = 120 -> -50 [] d = 144 -> -81 [] d = 180 -> -100
    [] d = 216 -> -81 [] d = 240 -> -50 [] d = 270 -> 0
    [] d = 288 -> 31 [] d = 300 -> 50

SinDeg(d) ==
  CASE d = 0 -> 0 [] d = 60 -> 87 [] d = 72 -> 95 [] d = 90 -> 100
    [] d = 120 -> 87 [] d = 144 -> 59 [] d = 180 -> 0
    [] d = 216 -> -59 [] d = 240 -> -87 [] d = 270 -> -100
    [] d = 288 -> -95 [] d = 300 -> -87

(***************************************************************************)
(* Simulation::options_t and Renderer::options_t                           *)
(***************************************************************************)
CIRCLE == "Circle"
DEADLOCK == "Deadlock"
Configurations == {CIRCLE, DEADLOCK}

\* Values the sliders of the model offer (each within the slider's range).
RadiusValues == {150, 300}
CircleRadiusValues == {10000, 20000}
NumAgentsValues == 0 .. MaxAgents

\* The fields of options_t the simulation state depends on.
DefaultSimulationOptions ==
  [configuration |-> CIRCLE,
   run_simulation |-> FALSE,
   radius |-> 150,
   numAgents |-> DefaultNumAgents,
   circleRadius |-> 20000]

DefaultRendererOptions == [scale |-> 150, offset_x |-> 30000, offset_y |-> 0]

\* Window size requested from SDL_CreateWindow, in pixels.
WindowWidth == 1280
WindowHeight == 768

(***************************************************************************)
(* The solver (RVO::RVOSimulator), as the harness uses it                  *)
(***************************************************************************)
\* std::make_unique<RVO::RVOSimulator>(): no agents, no obstacles.
\* processed counts the obstacles covered by the last processObstacles.
NewSimulator ==
  [agents |-> <<>>, prefVelocities |-> <<>>, obstacles |-> <<>>, processed |-> 0]

addAgent(sim, position) ==
  [sim EXCEPT !.agents = Append(@, position),
              !.prefVelocities = Append(@, Vector2(0, 0))]

addObstacle(sim, vertices) == [sim EXCEPT !.obstacles = Append(@, vertices)]

\* Faulty variant of processObstacles: the call does nothing.
processObstaclesSkipped(sim) == sim

processObstacles(sim) == [sim EXCEPT !.processed = Len(sim.obstacles)]

getNumAgents(sim) == Len(sim.agents)

getAgentPosition(sim, i) == sim.agents[i + 1]

setAgentPrefVelocity(sim, i, v) == [sim EXCEPT !.prefVelocities[i + 1] = v]

\* setTimeStep(dt); doStep(): every agent advances by its preferred velocity
\* times dt (the solver's avoidance and speed limit are outside the model).
doStep(sim, dt) ==
  [sim EXCEPT !.agents =
     [i \in 1 .. Len(sim.agents) |->
        VAdd(sim.agents[i], VScale(dt, sim.prefVelocities[i]))]]

(***************************************************************************)
(* struct Simulation                                                       *)
(*   s.simulator, s.goals, s.staging_obstacle, s.obstacles are the members;*)
(*   a result record adds what the call did besides: divzero (a division   *)
(*   by zero was evaluated) and fault (an exception left the call).        *)
(***************************************************************************)
\* Simulation() = default: no solver yet, all vectors empty.
NewSimulation ==
  [simulator |-> NewSimulator, goals |-> <<>>, staging_obstacle |-> <<>>,
   obstacles |-> <<>>]

\* goals.reserve(options.numAgents): the int converts to size_t, so a negative
\* count becomes at least 2^64 - 2^31, beyond the vector's max_size, and
\* reserve throws std::length_error.
ReserveThrows(numAgents) == numAgents < 0

RECURSIVE AddObstacles(_, _, _)
\* for (const auto& obstacle : obstacles) simulator->addObstacle(obstacle);
AddObstacles(sim, obstacles, k) ==
  IF k > Len(obstacles) THEN sim
  ELSE AddObstacles(addObstacle(sim, obstacles[k]), obstacles, k + 1)

\* i * 2 * M_PI / options.numAgents, in degrees; a zero divisor is recorded.
Angle(i, numAgents) ==
  [deg |-> IF numAgents = 0 THEN 0 ELSE (360 * i) \div numAgents,
   divzero |-> numAgents = 0]

RECURSIVE CircleLoopFirstAgent(_, _, _, _)

\* Faulty variant of CircleLoop: every goal is read from agent 0 instead of agent i.
CircleLoopFirstAgent(acc, options, i, count) ==
  IF ~(i < count) THEN acc
  ELSE
    LET a == Angle(i, options.numAgents)
        sim1 == addAgent(acc.simulator,
                         VScale(options.circleRadius,
                                Vector2(CosDeg(a.deg), SinDeg(a.deg))))
    IN CircleLoopFirstAgent(
         [simulator |-> sim1,
          goals |-> Append(acc.goals, VNeg(getAgentPosition(sim1, 0))),
          divzero |-> acc.divzero \/ a.divzero],
         options, i + 1, count)

RECURSIVE CircleLoop(_, _, _, _)
\* for (size_t i = 0; i < options.numAgents; ++i) { addAgent; push_back }
\* acc = [simulator, goals, divzero]
CircleLoop(acc, options, i, count) ==
  IF ~(i < count) THEN acc
  ELSE
    LET a == Angle(i, options.numAgents)
        sim1 == addAgent(acc.simulator,
                         VScale(options.circleRadius,
                                Vector2(CosDeg(a.deg), SinDeg(a.deg))))
    IN CircleLoop([simulator |-> sim1,
                   goals |-> Append(acc.goals, VNeg(getAgentPosition(sim1, i))),
                   divzero |-> acc.divzero \/ a.divzero],
                  options, i + 1, count)

\* Faulty variant of DeadlockPlacement: the two goals are stored in the wrong order.
DeadlockPlacementSwapped(sim, goals, options) ==
  LET sim1 == addAgent(sim, Vector2(FMul(ToFloat(-2), options.radius), 0))
      goals1 == Append(goals, Vector2(FMul(ToFloat(-10), options.radius), 0))
      sim2 == addAgent(sim1, Vector2(FMul(ToFloat(2), options.radius), 0))
      goals2 == Append(goals1, Vector2(FMul(ToFloat(10), options.radius), 0))
  IN [simulator |-> sim2, goals |-> goals2, divzero |-> FALSE]

\* The DEADLOCK branch.
DeadlockPlacement(sim, goals, options) ==
  LET sim1 == addAgent(sim, Vector2(FMul(ToFloat(-2), options.radius), 0))
      goals1 == Append(goals, Vector2(FMul(ToFloat(10), options.radius), 0))
      sim2 == addAgent(sim1, Vector2(FMul(ToFloat(2), options.radius), 0))
      goals2 == Append(goals1, Vector2(FMul(ToFloat(-10), options.radius), 0))
  IN [simulator |-> sim2, goals |-> goals2, divzero |-> FALSE]

\* Faulty variants of InitSimulator: the committed obstacles are not handed to the new
\* solver; the old solver is kept instead of a fresh one.
InitSimulatorNoObstacles(s) == NewSimulator
InitSimulatorReused(s) ==
  LET sim1 == AddObstacles(s.simulator, s.obstacles, 1)
  IN IF s.obstacles # <<>> THEN processObstacles(sim1) ELSE sim1

\* The solver initialize builds before it places agents: a fresh instance
\* holding the committed obstacles, processed when there are any.
InitSimulator(s) ==
  LET sim1 == AddObstacles(NewSimulator, s.obstacles, 1)
  IN IF s.obstacles # <<>> THEN processObstacles(sim1) ELSE sim1

\* Faulty variant of ClearGoals: goals.clear() is missing.
ClearGoalsKept(s) == s.goals

\* goals.clear()
ClearGoals(s) == <<>>

\* Faulty variant of Simulation_initialize: it also clears the staging buffer.
Simulation_initialize_clears(s, options) ==
  LET sim0 == InitSimulator(s)
      goals0 == ClearGoals(s)
      placed ==
        IF options.configuration = CIRCLE
          THEN IF ReserveThrows(options.numAgents)
                 THEN [simulator |-> sim0, goals |-> goals0, divzero |-> FALSE,
                       fault |-> TRUE]
                 ELSE CircleLoop([simulator |-> sim0, goals |-> goals0,
                                  divzero |-> FALSE], options, 0, options.numAgents)
                      @@ [fault |-> FALSE]
        ELSE DeadlockPlacement(sim0, goals0, options) @@ [fault |-> FALSE]
  IN [simulator |-> placed.simulator,
      goals |-> placed.goals,
      staging_obstacle |-> <<>>,
      obstacles |-> s.obstacles,
      divzero |-> placed.divzero,
      fault |-> placed.fault]

\* void Simulation::initialize(const options_t& options)
Simulation_initialize(s, options) ==
  LET sim0 == InitSimulator(s)
      goals0 == ClearGoals(s)
      count == options.numAgents
      placed ==
        IF options.configuration = CIRCLE
          THEN IF ReserveThrows(options.numAgents)
                 \* goals.reserve throws std::length_error
                 THEN [simulator |-> sim0, goals |-> goals0, divzero |-> FALSE,
                       fault |-> TRUE]
                 ELSE CircleLoop([simulator |-> sim0, goals |-> goals0,
                                  divzero |-> FALSE], options, 0, count)
                      @@ [fault |-> FALSE]
        ELSE IF options.configuration = DEADLOCK
          THEN DeadlockPlacement(sim0, goals0, options) @@ [fault |-> FALSE]
        ELSE [simulator |-> sim0, goals |-> goals0, divzero |-> FALSE,
              fault |-> FALSE]
  IN [simulator |-> placed.simulator,
      goals |-> placed.goals,
      staging_obstacle |-> s.staging_obstacle,
      obstacles |-> s.obstacles,
      divzero |-> placed.divzero,
      fault |-> placed.fault]

RECURSIVE PrefVelocityLoopToGoal(_, _, _)

\* Faulty variant of PrefVelocityLoop: the agent's position is not subtracted.
PrefVelocityLoopToGoal(sim, goals, i) ==
  IF ~(i < getNumAgents(sim)) THEN sim
  ELSE PrefVelocityLoopToGoal(setAgentPrefVelocity(sim, i, goals[i + 1]),
                              goals, i + 1)

RECURSIVE PrefVelocityLoop(_, _, _)
\* for (int i = 0; i < getNumAgents(); ++i) setAgentPrefVelocity(i, goals[i] - position)
PrefVelocityLoop(sim, goals, i) ==
  IF ~(i < getNumAgents(sim)) THEN sim
  ELSE PrefVelocityLoop(
         setAgentPrefVelocity(sim, i, VSub(goals[i + 1], getAgentPosition(sim, i))),
         goals, i + 1)

\* void Simulation::set_preferred_velocities()
set_preferred_velocities(s) ==
  [s EXCEPT !.simulator = PrefVelocityLoop(s.simulator, s.goals, 0)]

\* void Simulation::step(float dt)
step(s, dt) == [s EXCEPT !.simulator = doStep(s.simulator, dt)]

\* Faulty variant of CommitKeeps: two vertices already make a polygon.
CommitKeepsTwo(staging) == Len(staging) > 1

\* The condition under which commit_obstacle keeps the staged polygon.
CommitKeeps(staging) == Len(staging) > 2

\* Faulty variant of commit_obstacle: the staging buffer is cleared before it is copied.
commit_obstacle_cleared_first(s) ==
  LET kept ==
        IF CommitKeeps(s.staging_obstacle)
          THEN [s EXCEPT !.simulator = processObstacles(addObstacle(@, <<>>)),
                         !.obstacles = Append(@, <<>>)]
          ELSE s
  IN [kept EXCEPT !.staging_obstacle = <<>>]

\* void Simulation::commit_obstacle()
commit_obstacle(s) ==
  LET kept ==
        IF CommitKeeps(s.staging_obstacle)
          THEN [s EXCEPT
                  !.simulator = processObstacles(addObstacle(@, s.staging_obstacle)),
                  !.obstacles = Append(@, s.staging_obstacle)]
          ELSE s
  IN [kept EXCEPT !.staging_obstacle = <<>>]

(***************************************************************************)
(* State                                                                   *)
(***************************************************************************)
VARIABLES
  simulation,          \* App::simulation: simulator, goals, staging_obstacle, obstacles
  simulation_options,  \* App::simulation_options
  renderer_options,    \* App::renderer.options: scale, offset_x, offset_y
  resources,           \* what Renderer holds: subset of {"sdl", "window", "renderer", "ui"}
  pc,                  \* position of App::run / App::main_loop
  last                 \* what the latest step of the program did (see Did)

vars == <<simulation, simulation_options, renderer_options, resources, pc, last>>

\* The record kept in last: the widget or event handled (ev), whether the UI
\* reported the pointer or keyboard captured (captured), the Simulation method
\* called (op, "none" if none), the staging buffer as that method found it
\* (staged), and whether a division by zero was evaluated (divzero).  A draw
\* adds what its staging pass saw and rendered: ui_want_capture_mouse()
\* (hover), SDL_GetMouseState (pointer) and the preview lines (preview).
Did(ev, captured, op, staged, divzero) ==
  [ev |-> ev, captured |-> captured, op |-> op, staged |-> staged,
   divzero |-> divzero, hover |-> FALSE, pointer |-> <<0, 0>>, preview |-> {}]

\* The members of a Simulation result record.
Members(r) ==
  [simulator |-> r.simulator, goals |-> r.goals,
   staging_obstacle |-> r.staging_obstacle, obstacles |-> r.obstacles]

(***************************************************************************)
(* struct Renderer                                                         *)
(***************************************************************************)
\* width / 2 and height / 2 are uint32_t quotients, then converted to float.
HalfWidth == ToFloat(WindowWidth \div 2)
HalfHeight == ToFloat(WindowHeight \div 2)

\* RVO::Vector2 Renderer::toScreenSpace(const RVO::Vector2& point)
toScreenSpace(options, point) ==
  Vector2(FAdd(FAdd(HalfWidth, options.offset_x), FMul(point[1], options.scale)),
          FSub(FAdd(HalfHeight, options.offset_y), FMul(point[2], options.scale)))

\* Faulty variant of fromScreenSpace: the camera offset is not taken off.
fromScreenSpaceNoOffset(options, point) ==
  VDiv(Vector2(FSub(point[1], HalfWidth), FAdd(FNeg(point[2]), HalfHeight)),
       options.scale)

\* RVO::Vector2 Renderer::fromScreenSpace(const RVO::Vector2& point)
fromScreenSpace(options, point) ==
  VDiv(Vector2(FSub(FSub(point[1], HalfWidth), options.offset_x),
               FAdd(FAdd(FNeg(point[2]), HalfHeight), options.offset_y)),
       options.scale)

\* Whether fromScreenSpace divides by zero under these options.
DividesByZero(options) == options.scale = 0

\* offset_max of Renderer::draw: the "Offset" sliders range over
\* [-offset_max, offset_max + 1].
OffsetMax(options, sim_options) ==
  FAdd(FMul(ToFloat(IF WindowWidth > WindowHeight THEN WindowWidth ELSE WindowHeight),
            50),
       FMul(FAdd(sim_options.circleRadius, sim_options.radius), options.scale))

InOffsetRange(v, options, sim_options) ==
  /\ FNeg(OffsetMax(options, sim_options)) <= v
  /\ v <= FAdd(OffsetMax(options, sim_options), ToFloat(1))

\* float to int, as SDL_RenderDrawLine's int parameters convert a coordinate
\* (finite values; the staged vertices of the checked runs are finite).
ToPixel(v) == IF IsNaN(v) \/ IsInf(v) THEN v ELSE TruncDiv(v, Unit)

\* SDL_RenderDrawLine(renderer, a.x(), a.y(), x, y) as the line it draws.
Line(a, x, y) == <<ToPixel(a[1]), ToPixel(a[2]), x, y>>

\* Faulty variant of Preview: the line from the first vertex to the pointer is
\* drawn only once more than two vertices are staged.
PreviewClosingFromThree(staging, options, hover, pointer) ==
  IF hover
    THEN IF Len(staging) > 2
           THEN {Line(toScreenSpace(options, staging[1]),
                      ToPixel(toScreenSpace(options, staging[Len(staging)])[1]),
                      ToPixel(toScreenSpace(options, staging[Len(staging)])[2]))}
           ELSE {}
    ELSE (IF Len(staging) > 2
            THEN {Line(toScreenSpace(options, staging[1]), pointer[1], pointer[2])}
            ELSE {})
         \cup
         (IF staging # <<>>
            THEN {Line(toScreenSpace(options, staging[Len(staging)]),
                       pointer[1], pointer[2])}
            ELSE {})

\* The lines Renderer::draw adds to the staged vertices and the edges between
\* them: the closing edge while the pointer is over the UI, the lines to the
\* pointer otherwise.
Preview(staging, options, hover, pointer) ==
  IF hover
    THEN IF Len(staging) > 2
           THEN {Line(toScreenSpace(options, staging[1]),
                      ToPixel(toScreenSpace(options, staging[Len(staging)])[1]),
                      ToPixel(toScreenSpace(options, staging[Len(staging)])[2]))}
           ELSE {}
    ELSE (IF staging # <<>>
            THEN {Line(toScreenSpace(options, staging[1]), pointer[1], pointer[2])}
            ELSE {})
         \cup
         (IF Len(staging) > 1
            THEN {Line(toScreenSpace(options, staging[Len(staging)]),
                       pointer[1], pointer[2])}
            ELSE {})

(***************************************************************************)
(* Initial state: App::App() has run, App::run() has not                   *)
(***************************************************************************)
Init ==
  /\ simulation = Members(Simulation_initialize(NewSimulation, DefaultSimulationOptions))
  /\ simulation_options = DefaultSimulationOptions
  /\ renderer_options = DefaultRendererOptions
  /\ resources = {}
  /\ pc = "run"
  /\ last = Did("construct", FALSE, "initialize", <<>>, FALSE)

(***************************************************************************)
(* App::run up to the loop: Renderer::initialize                           *)
(***************************************************************************)
\* What Renderer::initialize has created when the creation named outcome
\* fails ("ok": none fails).
Created(outcome) ==
  CASE outcome = "sdl" -> {}
    [] outcome = "window" -> {"sdl"}
    [] outcome = "renderer" -> {"sdl", "window"}
    [] outcome = "ui" -> {"sdl", "window", "renderer"}
    [] outcome = "ok" -> {"sdl", "window", "renderer", "ui"}

\* The pointer members (SDL_Window* window; SDL_Renderer* renderer;
\* ImGuiContext* ui; none has an initializer and Renderer has no constructor)
\* that have never been assigned when initialize calls terminate() after the
\* failure named outcome.  terminate() tests each of them.
Unassigned(outcome) ==
  CASE outcome = "window" -> {"renderer", "ui"}
    [] outcome = "renderer" -> {"ui"}
    [] OTHER -> {}

\* void Renderer::terminate() noexcept, every pointer member holding either
\* null or what was created: everything held is released.
Renderer_terminate(held) == held \ {"ui", "renderer", "window", "sdl"}

\* outcome names the first creation that fails, or "ok".  garbage is what the
\* read of a never-assigned pointer member yields in terminate(): null
\* (FALSE), or a non-null value (TRUE), which terminate() hands to the
\* library's destroy call and the program faults before SDL_Quit.
Renderer_initialize(outcome, garbage) ==
  /\ pc = "run"
  /\ garbage => Unassigned(outcome) # {}
  /\ IF outcome = "ok"
       THEN /\ resources' = Created(outcome)
            /\ pc' = "draw"
       ELSE IF outcome = "sdl"
         THEN /\ resources' = Created(outcome)
              /\ pc' = "exit_failure"
       ELSE IF garbage
         THEN /\ resources' = Created(outcome)
              /\ pc' = "aborted"
       ELSE /\ resources' = Renderer_terminate(Created(outcome))
            /\ pc' = "exit_failure"
  /\ last' = Did(outcome, FALSE, "none", <<>>, FALSE)
  /\ UNCHANGED <<simulation, simulation_options, renderer_options>>

(***************************************************************************)
(* Renderer::draw: one frame's UI pass.  Each action is one draw call in   *)
(* which the user operates the named widget (or none).                     *)
(***************************************************************************)
\* Faulty variant of Drawn: after the draw the frame goes straight to step,
\* without set_preferred_velocities.
DrawnThenStep(ev, op, staged, hover, pointer) ==
  /\ pc' = "step"
  /\ last' = Did(ev, FALSE, op, staged, FALSE)
  /\ UNCHANGED resources

\* What the draw renders of the staging buffer, given the members and the
\* camera as the widgets left them.
Rendered(did, hover, pointer) ==
  [did EXCEPT !.hover = hover, !.pointer = pointer,
              !.preview = Preview(simulation'.staging_obstacle,
                                  renderer_options', hover, pointer)]

\* The end of every draw: hover and pointer are what ui_want_capture_mouse()
\* and SDL_GetMouseState answer in the staging pass.
Drawn(ev, op, staged, hover, pointer) ==
  /\ pc' = "update"
  /\ last' = Rendered(Did(ev, FALSE, op, staged, FALSE), hover, pointer)
  /\ UNCHANGED resources

\* A pixel of the "Controls" window, where the pointer is while it operates a
\* widget.
OverControls == <<100, 100>>

\* A draw in which the user operates no widget, the pointer anywhere.
DrawIdle(pointer, hover) ==
  /\ pc = "draw"
  /\ UNCHANGED <<simulation, simulation_options, renderer_options>>
  /\ Drawn("none", "none", <<>>, hover, pointer)

\* ImGui::SliderFloat("Zoom", &options.scale, 0.01, 100, ...)
DrawZoom(v) ==
  /\ pc = "draw"
  /\ 1 <= v /\ v <= 10000
  /\ renderer_options' = [renderer_options EXCEPT !.scale = v]
  /\ UNCHANGED <<simulation, simulation_options>>
  /\ Drawn("zoom", "none", <<>>, TRUE, OverControls)

\* ImGui::SliderFloat2("Offset", &options.offset_x, -offset_max, offset_max + 1)
DrawOffset(field, v) ==
  /\ pc = "draw"
  /\ InOffsetRange(v, renderer_options, simulation_options)
  /\ renderer_options' = [renderer_options EXCEPT ![field] = v]
  /\ UNCHANGED <<simulation, simulation_options>>
  /\ Drawn("offset", "none", <<>>, TRUE, OverControls)

\* ImGui::SliderFloat("Agent Radius (m)", &simulation_options.radius, 0, 10)
DrawRadius(v) ==
  /\ pc = "draw"
  /\ 0 <= v /\ v <= 1000
  /\ simulation_options' = [simulation_options EXCEPT !.radius = v]
  /\ UNCHANGED <<simulation, renderer_options>>
  /\ Drawn("radius", "none", <<>>, TRUE, OverControls)

\* Faulty variant of DrawNumAgents: the edited count is applied at once.
DrawNumAgentsApplied(n) ==
  /\ pc = "draw"
  /\ 0 <= n /\ n <= 500
  /\ simulation_options' = [simulation_options EXCEPT !.numAgents = n]
  /\ simulation' = Members(Simulation_initialize(simulation, simulation_options'))
  /\ UNCHANGED renderer_options
  /\ Drawn("numAgents", "none", <<>>, TRUE, OverControls)

\* ImGui::SliderInt("Number of Agents", &simulation_options.numAgents, 0, 500)
DrawNumAgents(n) ==
  /\ pc = "draw"
  /\ 0 <= n /\ n <= 500
  /\ simulation_options' = [simulation_options EXCEPT !.numAgents = n]
  /\ UNCHANGED <<simulation, renderer_options>>
  /\ Drawn("numAgents", "none", <<>>, TRUE, OverControls)

\* The same slider after Ctrl+click: it becomes an input box, and the toolkit
\* stores the typed integer without clamping it to the slider's range.
DrawNumAgentsTyped(n) ==
  /\ pc = "draw"
  /\ simulation_options' = [simulation_options EXCEPT !.numAgents = n]
  /\ UNCHANGED <<simulation, renderer_options>>
  /\ Drawn("numAgents_typed", "none", <<>>, TRUE, OverControls)

\* ImGui::SliderFloat("Radius of Circle (m)", &simulation_options.circleRadius, 0, 1000)
DrawCircleRadius(v) ==
  /\ pc = "draw"
  /\ 0 <= v /\ v <= 100000
  /\ simulation_options' = [simulation_options EXCEPT !.circleRadius = v]
  /\ UNCHANGED <<simulation, renderer_options>>
  /\ Drawn("circleRadius", "none", <<>>, TRUE, OverControls)

\* ImGui::Checkbox("Run Simulation", &simulation_options.run_simulation)
DrawRunCheckbox ==
  /\ pc = "draw"
  /\ simulation_options' = [simulation_options EXCEPT !.run_simulation = ~@]
  /\ UNCHANGED <<simulation, renderer_options>>
  /\ Drawn("run_checkbox", "none", <<>>, TRUE, OverControls)

\* The "Configuration" combo.
DrawConfiguration(c) ==
  /\ pc = "draw"
  /\ simulation_options' = [simulation_options EXCEPT !.configuration = c]
  /\ UNCHANGED <<simulation, renderer_options>>
  /\ Drawn("configuration", "none", <<>>, TRUE, OverControls)

\* if (!staging_obstacle.empty()) if (ImGui::Button("Add Obstacle")) commit_obstacle()
DrawAddObstacle ==
  /\ pc = "draw"
  /\ simulation.staging_obstacle # <<>>
  /\ simulation' = commit_obstacle(simulation)
  /\ UNCHANGED <<simulation_options, renderer_options>>
  /\ Drawn("add_obstacle", "commit_obstacle", simulation.staging_obstacle, TRUE, OverControls)

\* Faulty variant of Reinitialize: the reset acts only while the simulation runs.
ReinitializeWhenRunning(ev, captured) ==
  LET r == IF simulation_options.run_simulation
             THEN Simulation_initialize(simulation, simulation_options)
             ELSE simulation @@ [divzero |-> FALSE, fault |-> FALSE]
  IN /\ simulation' = Members(r)
     /\ last' = IF pc = "draw"
                  THEN Rendered(Did(ev, captured, "initialize",
                                    simulation.staging_obstacle, r.divzero),
                                TRUE, OverControls)
                  ELSE Did(ev, captured, "initialize",
                           simulation.staging_obstacle, r.divzero)
     /\ pc' = IF r.fault THEN "aborted" ELSE IF pc = "draw" THEN "update" ELSE pc

\* What a call of simulation.initialize(simulation_options) leaves: the new
\* members, and the loop ends when the call throws.
Reinitialize(ev, captured) ==
  LET r == Simulation_initialize(simulation, simulation_options)
  IN /\ simulation' = Members(r)
     /\ last' = IF pc = "draw"
                  THEN Rendered(Did(ev, captured, "initialize",
                                    simulation.staging_obstacle, r.divzero),
                                TRUE, OverControls)
                  ELSE Did(ev, captured, "initialize",
                           simulation.staging_obstacle, r.divzero)
     /\ pc' = IF r.fault THEN "aborted" ELSE IF pc = "draw" THEN "update" ELSE pc

\* if (ImGui::Button("Reset")) simulation.initialize(simulation_options)
DrawReset ==
  /\ pc = "draw"
  /\ UNCHANGED <<simulation_options, renderer_options, resources>>
  /\ Reinitialize("reset_button", FALSE)

(***************************************************************************)
(* App::main_loop after the draw: the simulation update                    *)
(***************************************************************************)
\* Faulty variant of SkipUpdate: the pause is ignored and the agents advance.
SkipUpdateSteps ==
  /\ pc = "update"
  /\ ~simulation_options.run_simulation
  /\ simulation' = step(set_preferred_velocities(simulation), 100)
  /\ pc' = "events"
  /\ last' = Did("update", FALSE, "step", simulation.staging_obstacle, FALSE)
  /\ UNCHANGED <<simulation_options, renderer_options, resources>>

\* if (run_simulation) simulation.set_preferred_velocities();
SetPreferredVelocities ==
  /\ pc = "update"
  /\ simulation_options.run_simulation
  /\ simulation' = set_preferred_velocities(simulation)
  /\ pc' = "step"
  /\ last' = Did("update", FALSE, "set_preferred_velocities",
                 simulation.staging_obstacle, FALSE)
  /\ UNCHANGED <<simulation_options, renderer_options, resources>>

\* simulation.step(time_scale * dt), dt the product handed to step.
Step(dt) ==
  /\ pc = "step"
  /\ simulation' = step(simulation, dt)
  /\ pc' = "events"
  /\ last' = Did("update", FALSE, "step", simulation.staging_obstacle, FALSE)
  /\ UNCHANGED <<simulation_options, renderer_options, resources>>

\* run_simulation is false: the frame goes on to the events.
SkipUpdate ==
  /\ pc = "update"
  /\ ~simulation_options.run_simulation
  /\ pc' = "events"
  /\ last' = Did("update", FALSE, "none", <<>>, FALSE)
  /\ UNCHANGED <<simulation, simulation_options, renderer_options, resources>>

(***************************************************************************)
(* App::main_loop: the event loop.  Each action handles one polled event;  *)
(* captured is what ui_want_capture_mouse / ui_want_capture_keyboard       *)
(* answers for it.                                                         *)
(***************************************************************************)
RECURSIVE CountVertices(_, _)
CountVertices(obstacles, k) ==
  IF k > Len(obstacles) THEN 0
  ELSE Len(obstacles[k]) + CountVertices(obstacles, k + 1)

\* Bound of the model: the user places at most MaxVertices vertices.
RoomForVertex ==
  Len(simulation.staging_obstacle) + CountVertices(simulation.obstacles, 1)
    < MaxVertices

\* Faulty variant of StagedWith: the vertex is put in front of the staged ones.
StagedWithFront(p) ==
  <<fromScreenSpace(renderer_options, Vector2(ToFloat(p[1]), ToFloat(p[2])))>>
    \o simulation.staging_obstacle

\* The vertex a button event at pixel p adds to the staging buffer.
StagedWith(p) ==
  Append(simulation.staging_obstacle,
         fromScreenSpace(renderer_options, Vector2(ToFloat(p[1]), ToFloat(p[2]))))

Handled(ev, captured, op, staged, divzero) ==
  /\ pc' = "events"
  /\ last' = Did(ev, captured, op, staged, divzero)
  /\ UNCHANGED resources

\* SDL_MOUSEBUTTONDOWN, SDL_BUTTON_LEFT, clicks == 2
MouseDoubleClick(p, captured) ==
  /\ pc = "events"
  /\ RoomForVertex
  /\ IF captured
       THEN /\ UNCHANGED simulation
            /\ Handled("double_click", TRUE, "none", <<>>, FALSE)
       ELSE /\ simulation' = [simulation EXCEPT !.staging_obstacle = StagedWith(p)]
            /\ Handled("double_click", FALSE, "none", <<>>,
                       DividesByZero(renderer_options))
  /\ UNCHANGED <<simulation_options, renderer_options>>

\* SDL_MOUSEBUTTONDOWN, SDL_BUTTON_RIGHT
MouseRightClick(p, captured) ==
  /\ pc = "events"
  /\ RoomForVertex
  /\ IF captured
       THEN /\ UNCHANGED simulation
            /\ Handled("right_click", TRUE, "none", <<>>, FALSE)
       ELSE /\ simulation' =
                 commit_obstacle([simulation EXCEPT !.staging_obstacle = StagedWith(p)])
            /\ Handled("right_click", FALSE, "commit_obstacle", StagedWith(p),
                       DividesByZero(renderer_options))
  /\ UNCHANGED <<simulation_options, renderer_options>>

\* Faulty variant of Scrolled: the clamp at zero is missing.
ScrolledUnclamped(scale, y) == FAdd(scale, FMul(FMul(ToFloat(y), 1), scale))

\* scale += wheel.y * 0.01 * scale; if (scale < 0) scale = 0.0f;
Scrolled(scale, y) ==
  LET sum == FAdd(scale, FMul(FMul(ToFloat(y), 1), scale))
  IN IF sum < 0 THEN 0 ELSE sum

\* SDL_MOUSEWHEEL
MouseWheel(y, captured) ==
  /\ pc = "events"
  /\ Scrolled(renderer_options.scale, y) <= MaxScale
  /\ renderer_options' =
       IF captured THEN renderer_options
       ELSE [renderer_options EXCEPT !.scale = Scrolled(@, y)]
  /\ Handled("wheel", captured, "none", <<>>, FALSE)
  /\ UNCHANGED <<simulation, simulation_options>>

\* offset_x += motion.xrel; offset_y += motion.yrel;
Dragged(options, rel) ==
  [options EXCEPT !.offset_x = FAdd(@, ToFloat(rel[1])),
                  !.offset_y = FAdd(@, ToFloat(rel[2]))]

\* Faulty variant of MouseMotion: the drag ignores the UI's capture answer.
MouseMotionUncaptured(rel, captured) ==
  /\ pc = "events"
  /\ renderer_options' = Dragged(renderer_options, rel)
  /\ pc' = "events"
  /\ last' = Did("motion", captured, "none", <<>>, FALSE)
  /\ UNCHANGED <<simulation, simulation_options, resources>>

\* SDL_MOUSEMOTION with motion.state == SDL_PRESSED
MouseMotion(rel, captured) ==
  /\ pc = "events"
  /\ Dragged(renderer_options, rel).offset_x \in -MaxOffset .. MaxOffset
  /\ Dragged(renderer_options, rel).offset_y \in -MaxOffset .. MaxOffset
  /\ renderer_options' =
       IF captured THEN renderer_options ELSE Dragged(renderer_options, rel)
  /\ Handled("motion", captured, "none", <<>>, FALSE)
  /\ UNCHANGED <<simulation, simulation_options>>

\* SDL_KEYDOWN, SDL_SCANCODE_SPACE
KeySpace(captured) ==
  /\ pc = "events"
  /\ simulation_options' =
       IF captured THEN simulation_options
       ELSE [simulation_options EXCEPT !.run_simulation = ~@]
  /\ Handled("key_space", captured, "none", <<>>, FALSE)
  /\ UNCHANGED <<simulation, renderer_options>>

\* SDL_KEYDOWN, SDL_SCANCODE_BACKSPACE
KeyBackspace(captured) ==
  /\ pc = "events"
  /\ IF captured
       THEN /\ UNCHANGED simulation
            /\ Handled("key_backspace", TRUE, "none", <<>>, FALSE)
       ELSE /\ Reinitialize("key_backspace", FALSE)
            /\ UNCHANGED resources
  /\ UNCHANGED <<simulation_options, renderer_options>>

\* SDL_KEYDOWN, SDL_SCANCODE_ESCAPE: return false
KeyEscape(captured) ==
  /\ pc = "events"
  /\ pc' = IF captured THEN "events" ELSE "quit"
  /\ last' = Did("key_escape", captured, "none", <<>>, FALSE)
  /\ UNCHANGED <<simulation, simulation_options, renderer_options, resources>>

\* Faulty variant of EventQuit: the event is consumed and the loop goes on.
EventQuitIgnored ==
  /\ pc = "events"
  /\ pc' = "events"
  /\ last' = Did("quit", FALSE, "none", <<>>, FALSE)
  /\ UNCHANGED <<simulation, simulation_options, renderer_options, resources>>

\* SDL_QUIT: return false
EventQuit ==
  /\ pc = "events"
  /\ pc' = "quit"
  /\ last' = Did("quit", FALSE, "none", <<>>, FALSE)
  /\ UNCHANGED <<simulation, simulation_options, renderer_options, resources>>

\* SDL_PollEvent returns 0: return true, and run calls main_loop again.
PollEmpty ==
  /\ pc = "events"
  /\ pc' = "draw"
  /\ last' = Did("poll_empty", FALSE, "none", <<>>, FALSE)
  /\ UNCHANGED <<simulation, simulation_options, renderer_options, resources>>

\* App::run after the loop: terminate(); return EXIT_SUCCESS;
Terminate ==
  /\ pc = "quit"
  /\ resources' = Renderer_terminate(resources)
  /\ pc' = "exit_success"
  /\ last' = Did("terminate", FALSE, "none", <<>>, FALSE)
  /\ UNCHANGED <<simulation, simulation_options, renderer_options>>

(***************************************************************************)
(* Inputs of the model                                                     *)
(***************************************************************************)
InitOutcomes == {"ok", "sdl", "window", "renderer", "ui"}
\* time_scale * dt handed to step, in hundredths of a second.
TimeSteps == {0, 100}
\* Pointer positions of button events, in pixels.
PointerA == <<1000, 300>>
PointerB == <<940, 384>>
\* event.wheel.y
WheelValues == {-150, -100, 100}
\* (motion.xrel, motion.yrel), in pixels
MotionValues == {<<700, -700>>}
ZoomValues == {150}
\* A "Zoom" value at which products and quotients by the scale are inexact.
FineZoomValues == {70}
\* World points and pointer pixels the camera transform is applied to.
WorldPoints == {<<3333, -3333>>, <<10, 700>>, <<-20000, 0>>}
Pixels == {<<1001, 300>>, <<2, 767>>, <<940, 384>>}
\* Agent counts the user types into the "Number of Agents" input box.
TypedCounts == {-1, 0, 1}
OffsetValues == {<<"offset_x", 30000>>, <<"offset_y", 0>>}

(***************************************************************************)
(* Next-state relations.  Loop is the frame loop itself; the others are    *)
(* the user's inputs by kind.                                              *)
(***************************************************************************)
Loop(captures) ==
  \/ \E outcome \in InitOutcomes, garbage \in BOOLEAN :
       Renderer_initialize(outcome, garbage)
  \/ \E hover \in captures : DrawIdle(PointerA, hover)
  \/ SetPreferredVelocities
  \/ \E dt \in TimeSteps : Step(dt)
  \/ SkipUpdate
  \/ PollEmpty
  \/ EventQuit
  \/ \E captured \in captures : KeyEscape(captured)
  \/ Terminate

RunControl(captures) ==
  \/ DrawRunCheckbox
  \/ \E captured \in captures : KeySpace(captured)

Reset(captures) ==
  \/ DrawReset
  \/ \E captured \in captures : KeyBackspace(captured)

AgentEdit ==
  \/ \E v \in RadiusValues : DrawRadius(v)
  \/ \E n \in NumAgentsValues : DrawNumAgents(n)
  \/ \E c \in Configurations : DrawConfiguration(c)

ExtentEdit ==
  \/ \E v \in CircleRadiusValues : DrawCircleRadius(v)

Authoring(pointers, captures) ==
  \/ \E p \in pointers, captured \in captures : MouseDoubleClick(p, captured)
  \/ \E p \in pointers, captured \in captures : MouseRightClick(p, captured)
  \/ DrawAddObstacle

Camera(captures) ==
  \/ \E y \in WheelValues, captured \in captures : MouseWheel(y, captured)
  \/ \E rel \in MotionValues, captured \in captures : MouseMotion(rel, captured)
  \/ \E v \in ZoomValues : DrawZoom(v)
  \/ \E o \in OffsetValues : DrawOffset(o[1], o[2])

TypedEdit ==
  \/ \E n \in TypedCounts : DrawNumAgentsTyped(n)

\* The whole program.
Next ==
  \/ Loop(BOOLEAN) \/ RunControl(BOOLEAN) \/ Reset(BOOLEAN)
  \/ AgentEdit \/ ExtentEdit \/ TypedEdit
  \/ Authoring({PointerA, PointerB}, BOOLEAN) \/ Camera(BOOLEAN)
Spec == Init /\ [][Next]_vars

\* The user draws obstacles at two pointer positions, runs, pauses and resets;
\* configuration and camera stay as constructed.
NextAuthoring ==
  \/ Loop({FALSE}) \/ RunControl({FALSE}) \/ Reset({FALSE})
  \/ Authoring({PointerA, PointerB}, BOOLEAN)
SpecAuthoring == Init /\ [][NextAuthoring]_vars

\* The user edits scenario, agent count and agent radius, runs, pauses, resets
\* and draws obstacles at one pointer position; circle radius and camera stay
\* as constructed.
NextScenario ==
  \/ Loop({FALSE}) \/ RunControl({FALSE}) \/ Reset({FALSE})
  \/ AgentEdit
  \/ Authoring({PointerA}, {FALSE})
SpecScenario == Init /\ [][NextScenario]_vars

\* The user moves the camera, edits the extents the offset range depends on,
\* runs and pauses, and closes a polygon at once with the secondary button.
NextCamera ==
  \/ Loop({FALSE}) \/ RunControl({FALSE}) \/ Camera(BOOLEAN)
  \/ ExtentEdit \/ (\E v \in RadiusValues : DrawRadius(v))
  \/ \E p \in {PointerA, PointerB}, captured \in BOOLEAN : MouseRightClick(p, captured)
SpecCamera == Init /\ [][NextCamera]_vars

\* The user stages and closes polygons at one pointer position while the
\* camera is as constructed, scrolls and drags, runs and pauses; every pointer
\* event arrives both with the pointer over the UI and away from it.
NextCapture ==
  \/ Loop({FALSE}) \/ RunControl({FALSE})
  \/ \E y \in WheelValues, captured \in BOOLEAN : MouseWheel(y, captured)
  \/ \E rel \in MotionValues, captured \in BOOLEAN : MouseMotion(rel, captured)
  \/ \E captured \in BOOLEAN :
       /\ captured \/ renderer_options = DefaultRendererOptions
       /\ MouseDoubleClick(PointerA, captured)
  \/ \E captured \in BOOLEAN :
       /\ captured \/ renderer_options = DefaultRendererOptions
       /\ MouseRightClick(PointerA, captured)
SpecCapture == Init /\ [][NextCapture]_vars

\* The user types agent counts, the circle scenario staying selected, runs,
\* pauses and resets.
NextTyped ==
  \/ Loop({FALSE}) \/ RunControl({FALSE}) \/ Reset({FALSE})
  \/ TypedEdit
SpecTyped == Init /\ [][NextTyped]_vars

\* The user stages vertices at two pointer positions and adds the polygon with
\* the button, runs and pauses; draws find the pointer at either position,
\* over the UI or away from it.  The camera stays as constructed.
NextPreview ==
  \/ Loop({FALSE}) \/ RunControl({FALSE})
  \/ \E p \in {PointerA, PointerB}, hover \in BOOLEAN : DrawIdle(p, hover)
  \/ \E p \in {PointerA, PointerB} : MouseDoubleClick(p, FALSE)
  \/ DrawAddObstacle
SpecPreview == Init /\ [][NextPreview]_vars

\* The user runs, pauses and resets, scrolls and drags over the scene and over
\* the UI, and draws obstacles at one pointer position while the camera is as
\* constructed.
NextEditing ==
  \/ NextCapture \/ Reset({FALSE}) \/ DrawAddObstacle
SpecEditing == Init /\ [][NextEditing]_vars

\* The user edits scenario, agent count, agent radius and circle radius, runs,
\* pauses, resets, stages vertices at one pointer position and commits them
\* with "Add Obstacle"; the camera stays as constructed.
NextConfiguring ==
  \/ Loop({FALSE}) \/ RunControl({FALSE}) \/ Reset({FALSE})
  \/ AgentEdit \/ ExtentEdit
  \/ MouseDoubleClick(PointerA, FALSE) \/ DrawAddObstacle
SpecConfiguring == Init /\ [][NextConfiguring]_vars

\* The user zooms with the slider and the wheel, drags, runs and pauses, and
\* closes polygons at once with the secondary button, at three pointer pixels.
NextRoundTrip ==
  \/ Loop({FALSE}) \/ RunControl({FALSE}) \/ Camera({FALSE})
  \/ \E v \in FineZoomValues : DrawZoom(v)
  \/ \E p \in Pixels : MouseRightClick(p, FALSE)
SpecRoundTrip == Init /\ [][NextRoundTrip]_vars

(***************************************************************************)
(* Properties                                                              *)
(***************************************************************************)
Agents == simulation.simulator.agents
Staging == simulation.staging_obstacle
Committed == simulation.obstacles

\* C1: a commit_obstacle that finds n >= 3 staged vertices appends exactly one
\* polygon to the committed list, the staged vertices in their staged order,
\* leaves the earlier committed polygons as they were, and empties the
\* staging buffer.  (With the "Add Obstacle" button the staged vertices are
\* the staging buffer before the frame.)
C1_CommitAppendsPolygon ==
  [][(last'.op = "commit_obstacle" /\ Len(last'.staged) >= 3) =>
       /\ simulation'.obstacles = Append(simulation.obstacles, last'.staged)
       /\ simulation'.staging_obstacle = <<>>
       /\ (last'.ev = "add_obstacle" => last'.staged = simulation.staging_obstacle)
    ]_vars

\* A commit has just appended three staged vertices, not all equal, as the
\* second polygon, after a different first one.
C1_Witness ==
  /\ last.op = "commit_obstacle"
  /\ Len(last.staged) = 3
  /\ last.staged[1] # last.staged[2]
  /\ Len(Committed) = 2
  /\ Committed[2] = last.staged
  /\ Committed[1] # Committed[2]
  /\ Staging = <<>>

\* C2: a commit_obstacle that finds fewer than 3 staged vertices is no error:
\* the committed list and the solver (its obstacle set included) are
\* unchanged, the loop goes on, and the staging buffer ends empty.
C2_ShortCommitDiscards ==
  [][(last'.op = "commit_obstacle" /\ Len(last'.staged) < 3) =>
       /\ simulation'.obstacles = simulation.obstacles
       /\ simulation'.simulator = simulation.simulator
       /\ simulation'.staging_obstacle = <<>>
       /\ pc' \in {"update", "events"}
    ]_vars

\* A commit has just discarded two staged vertices while a polygon is committed.
C2_Witness ==
  /\ last.op = "commit_obstacle"
  /\ Len(last.staged) = 2
  /\ Committed # <<>>
  /\ Staging = <<>>

\* C3: after every re-initialization (reset key or Reset button) the staging
\* buffer is empty.
C3_ResetDiscardsStaging ==
  (last.op = "initialize" /\ last.ev \in {"key_backspace", "reset_button"})
    => Staging = <<>>

\* C4: initialize leaves the committed obstacle list as it was, and the new
\* solver holds exactly those polygons, in list order, all of them processed.
C4_InitializeKeepsObstacles ==
  [][last'.op = "initialize" =>
       /\ simulation'.obstacles = simulation.obstacles
       /\ simulation'.simulator.obstacles = simulation.obstacles
       /\ simulation'.simulator.processed = Len(simulation.obstacles)
    ]_vars

\* A reset has just run with two different polygons committed.
C4_Witness ==
  /\ last.op = "initialize"
  /\ last.ev \in {"key_backspace", "reset_button"}
  /\ Len(Committed) = 2
  /\ Committed[1] # Committed[2]
  /\ simulation.simulator.obstacles = Committed

\* C5: in every reachable state the goal list has as many entries as the
\* solver has agents.
C5_GoalsMatchAgents == Len(simulation.goals) = getNumAgents(simulation.simulator)

\* A step has just run on three agents (so the configuration was edited and a
\* reset run) with an obstacle committed.
C5_Witness ==
  /\ last.op = "step"
  /\ Len(simulation.goals) = 3
  /\ Committed # <<>>
  /\ simulation_options.configuration = DEADLOCK

\* C6: initialize with the deadlock scenario yields exactly two agents,
\* agent 0 at (-2 radius, 0) with goal (10 radius, 0) and agent 1 at
\* (2 radius, 0) with goal (-10 radius, 0), whatever the configured count.
C6_DeadlockPlacesTwo ==
  (last.op = "initialize" /\ simulation_options.configuration = DEADLOCK) =>
    /\ Agents = << <<-2 * simulation_options.radius, 0>>,
                   <<2 * simulation_options.radius, 0>> >>
    /\ simulation.goals = << <<10 * simulation_options.radius, 0>>,
                             <<-10 * simulation_options.radius, 0>> >>

\* A reset has just run with the deadlock scenario, a configured count of 3
\* and the larger radius.
C6_Witness ==
  /\ last.op = "initialize"
  /\ simulation_options.configuration = DEADLOCK
  /\ simulation_options.numAgents = 3
  /\ simulation_options.radius = 300
  /\ Len(Agents) = 2

\* C7: initialize with the circle scenario and count N >= 0 yields exactly N
\* agents and N goals, goal i the negation of agent i's position, and
\* evaluates no division by zero (for N = 0 both lists are empty).
C7_CirclePlacesN ==
  (last.op = "initialize" /\ simulation_options.configuration = CIRCLE) =>
    /\ Len(Agents) = simulation_options.numAgents
    /\ Len(simulation.goals) = simulation_options.numAgents
    /\ \A i \in 1 .. Len(Agents) :
         simulation.goals[i] = <<-Agents[i][1], -Agents[i][2]>>
    /\ ~last.divzero

\* A reset has just placed three agents on the circle, the second off the axis.
C7_Witness ==
  /\ last.op = "initialize"
  /\ last.ev \in {"key_backspace", "reset_button"}
  /\ simulation_options.configuration = CIRCLE
  /\ simulation_options.numAgents = 3
  /\ Len(Agents) = 3
  /\ Agents[2][2] # 0

\* C8: what initialize places depends on the configuration alone: after any
\* initialize, positions and goals are those the same configuration gives a
\* newly constructed Simulation, whatever was stepped, committed or
\* initialized before.
C8_InitializeDeterministic ==
  last.op = "initialize" =>
    LET fresh == Simulation_initialize(NewSimulation, simulation_options)
    IN /\ Agents = fresh.simulator.agents
       /\ simulation.goals = fresh.goals

\* A reset has just run on a configuration other than the default, with an
\* obstacle committed.
C8_Witness ==
  /\ last.op = "initialize"
  /\ last.ev \in {"key_backspace", "reset_button"}
  /\ simulation_options.numAgents # DefaultNumAgents
  /\ simulation_options.run_simulation
  /\ Committed # <<>>

\* C9: the camera scale is never negative.
C9_ScaleNeverNegative == renderer_options.scale >= 0

\* A scroll, not captured by the UI, has just brought the scale to zero.
C9_Witness ==
  /\ last.ev = "wheel"
  /\ ~last.captured
  /\ renderer_options.scale = 0

\* C10: no step of the program evaluates a division by zero, a camera scale
\* of 0 included.
C10_NoDivisionByZero == ~last.divzero

\* C11: a frame runs render, then the update, then the input dispatch.  The
\* update follows a render and nothing else; when the simulation is running it
\* is set_preferred_velocities and then exactly one step, otherwise no method
\* is called; every step directly follows the set_preferred_velocities of its
\* frame; the input dispatch begins only from the update; the render calls
\* neither set_preferred_velocities nor step.
C11_FrameOrder ==
  [][/\ (pc' = "update" => pc = "draw")
     /\ (last'.op = "set_preferred_velocities" =>
           pc = "update" /\ simulation_options.run_simulation /\ pc' = "step")
     /\ (pc = "step" => last'.op = "step")
     /\ (last'.op = "step" =>
           /\ last.op = "set_preferred_velocities"
           /\ pc = "step" /\ pc' = "events")
     /\ (last.op = "step" => last'.op # "step")
     /\ ((pc = "update" /\ ~simulation_options.run_simulation) =>
           last'.op = "none" /\ pc' = "events" /\ simulation' = simulation)
     /\ ((pc' = "events" /\ pc # "events") => pc \in {"update", "step"})
     /\ (pc = "draw" =>
           last'.op \notin {"set_preferred_velocities", "step"})
    ]_vars

\* A step has just moved the first agent from its starting position onto its
\* goal, after the agent count was edited in an earlier frame's render.
C11_Witness ==
  /\ last.op = "step"
  /\ pc = "events"
  /\ Len(Agents) = 2
  /\ Agents[1] = simulation.goals[1]
  /\ Agents[1] # Agents[2]
  /\ simulation_options.numAgents = -1

\* C12: a pointer-button, scroll or drag event for which the UI reports the
\* pointer captured changes neither the camera scale, nor the camera offset,
\* nor the staging buffer, nor the committed obstacle list.
C12_CapturedPointerIgnored ==
  [][(last'.captured
        /\ last'.ev \in {"double_click", "right_click", "wheel", "motion"}) =>
       /\ renderer_options'.scale = renderer_options.scale
       /\ renderer_options'.offset_x = renderer_options.offset_x
       /\ renderer_options'.offset_y = renderer_options.offset_y
       /\ simulation'.staging_obstacle = simulation.staging_obstacle
       /\ simulation'.obstacles = simulation.obstacles
    ]_vars

\* A drag over the UI has just been ignored while two vertices are staged, a
\* polygon is committed and the camera has been zoomed by an earlier scroll.
C12_Witness ==
  /\ last.ev = "motion"
  /\ last.captured
  /\ Len(Staging) = 2
  /\ Committed # <<>>
  /\ renderer_options.scale = 300
  /\ renderer_options.offset_x = DefaultRendererOptions.offset_x

\* C13: a secondary-button event with the pointer not over the UI appends the
\* pointer's world position to the staging buffer and commits.  Afterwards the
\* staging buffer is empty; if it held k >= 2 vertices, exactly one polygon,
\* those k vertices in order and then the pointer's position, is appended to
\* the committed list; if it held 0 or 1, the committed list is unchanged.
C13_RightClickCloses ==
  [][(last'.ev = "right_click" /\ ~last'.captured) =>
       \E p \in {PointerA, PointerB} :
         LET v == fromScreenSpace(renderer_options,
                                  Vector2(ToFloat(p[1]), ToFloat(p[2])))
             k == Len(simulation.staging_obstacle)
         IN /\ last'.staged = Append(simulation.staging_obstacle, v)
            /\ simulation'.staging_obstacle = <<>>
            /\ (k >= 2 =>
                  simulation'.obstacles =
                    Append(simulation.obstacles,
                           Append(simulation.staging_obstacle, v)))
            /\ (k < 2 => simulation'.obstacles = simulation.obstacles)
    ]_vars

\* A secondary-button event has just closed a polygon of three vertices, the
\* last of them different from the first, after an earlier polygon.
C13_Witness ==
  /\ last.ev = "right_click"
  /\ ~last.captured
  /\ Len(last.staged) = 3
  /\ last.staged[3] # last.staged[1]
  /\ Len(Committed) = 2
  /\ Committed[2] = last.staged
  /\ Staging = <<>>

\* C14: in every reachable state each component of the camera offset lies in
\* the range of the "Offset" sliders, [-offset_max, offset_max + 1], which
\* derives from the viewport size, circle radius, agent radius and scale.
C14_OffsetWithinRange ==
  /\ InOffsetRange(renderer_options.offset_x, renderer_options, simulation_options)
  /\ InOffsetRange(renderer_options.offset_y, renderer_options, simulation_options)

\* C15: initialize with a negative agent count under the circle scenario
\* completes without fault and leaves an empty roster and an empty goal list,
\* as a count of 0 does.
C15_NegativeCountClamped ==
  (/\ last.op = "initialize"
   /\ simulation_options.configuration = CIRCLE
   /\ simulation_options.numAgents < 0) =>
    /\ pc # "aborted"
    /\ Agents = <<>>
    /\ simulation.goals = <<>>

C17_QuitEndsLoop ==
  [][/\ ((last.ev = "quit" \/ (last.ev = "key_escape" /\ ~last.captured)) =>
           /\ pc = "quit"
           /\ last'.ev = "terminate"
           /\ last'.op = "none"
           /\ pc' = "exit_success"
           /\ resources' = {}
           /\ UNCHANGED <<simulation, simulation_options, renderer_options>>)
     /\ (pc \in {"quit", "exit_success"} => pc' = "exit_success")
     /\ (pc = "exit_success" => FALSE)
    ]_vars

\* run has returned success after a quit event ended the loop, while the
\* simulation was running on a single agent.
C17_Witness ==
  /\ pc = "exit_success"
  /\ last.ev = "terminate"
  /\ resources = {}
  /\ simulation_options.run_simulation
  /\ Len(Agents) = 1

\* C18: a reset (the Reset button, or the backspace key while the UI does not
\* capture the keyboard) calls initialize with the current configuration,
\* whether the simulation is running or not, and changes neither the running
\* flag, nor any other field of the configuration, nor the camera's scale and
\* offset.
C18_ResetReinitializes ==
  [][(last'.ev \in {"reset_button", "key_backspace"} /\ ~last'.captured) =>
       /\ last'.op = "initialize"
       /\ simulation' =
            Members(Simulation_initialize(simulation, simulation_options))
       /\ simulation_options' = simulation_options
       /\ renderer_options' = renderer_options
    ]_vars

\* The Reset button has just placed the agents of a paused simulation on the
\* deadlock starting positions of an edited agent radius.
C18_Witness ==
  /\ last.ev = "reset_button"
  /\ last.op = "initialize"
  /\ ~simulation_options.run_simulation
  /\ simulation_options.configuration = DEADLOCK
  /\ simulation_options.radius = 300
  /\ Len(Agents) = 2
  /\ Agents[1] = <<-600, 0>>

\* C19: initialize leaves the staging buffer untouched: after every call it
\* holds the vertices it held before, in the same order.
C19_InitializeKeepsStaging ==
  [][last'.op = "initialize" =>
       /\ simulation'.staging_obstacle = simulation.staging_obstacle
       /\ last'.staged = simulation.staging_obstacle
    ]_vars

\* A reset has just run over two different staged vertices, which are still
\* staged in their order, with a polygon committed.
C19_Witness ==
  /\ last.op = "initialize"
  /\ last.ev \in {"key_backspace", "reset_button"}
  /\ Len(Staging) = 2
  /\ Staging[1] # Staging[2]
  /\ Staging = last.staged
  /\ Committed # <<>>

\* C20: whenever step is about to be called, the solver's obstacles are the
\* committed obstacle list, polygon for polygon, and processObstacles has run
\* since the last of them was added to this solver instance.
C20_StepSeesProcessedObstacles ==
  pc = "step" =>
    /\ simulation.simulator.obstacles = simulation.obstacles
    /\ simulation.simulator.processed = Len(simulation.simulator.obstacles)

\* step is about to be called with two different polygons committed, both
\* processed.
C20_Witness ==
  /\ pc = "step"
  /\ last.op = "set_preferred_velocities"
  /\ Len(Committed) = 2
  /\ Committed[1] # Committed[2]
  /\ simulation.simulator.processed = 2

\* The screen positions of the first and the last staged vertex.
FirstOnScreen == toScreenSpace(renderer_options, Staging[1])
BackOnScreen == toScreenSpace(renderer_options, Staging[Len(Staging)])

\* C21 as stated: after a draw with the pointer not over the UI, the preview
\* has the line from the last staged vertex to the pointer, and the line from
\* the first staged vertex to the pointer is not drawn while fewer than 3
\* vertices are staged (it is the same line when one vertex is staged).
C21_ClosingEdgeFromThree ==
  (pc = "update" /\ ~last.hover /\ Staging # <<>>) =>
    /\ Line(BackOnScreen, last.pointer[1], last.pointer[2]) \in last.preview
    /\ ((Len(Staging) < 3 /\ FirstOnScreen # BackOnScreen) =>
          Line(FirstOnScreen, last.pointer[1], last.pointer[2]) \notin last.preview)

\* C21, amended: after a draw with the pointer not over the UI, the preview is
\* empty with nothing staged, the one line from the staged vertex to the
\* pointer with one vertex staged, and with two or more staged vertices the
\* line from the last one to the pointer together with the closing line from
\* the first one to the pointer; nothing else is drawn to the pointer.
C21_PreviewEdges ==
  (pc = "update" /\ ~last.hover) =>
    /\ (Staging = <<>> => last.preview = {})
    /\ (Staging # <<>> =>
          /\ Line(BackOnScreen, last.pointer[1], last.pointer[2]) \in last.preview
          /\ last.preview \subseteq
               {Line(BackOnScreen, last.pointer[1], last.pointer[2]),
                Line(FirstOnScreen, last.pointer[1], last.pointer[2])})
    /\ (Len(Staging) >= 2 =>
          Line(FirstOnScreen, last.pointer[1], last.pointer[2]) \in last.preview)

\* A draw has just rendered two different lines to the pointer, with exactly
\* two vertices staged.
C21_Witness ==
  /\ pc = "update"
  /\ ~last.hover
  /\ last.pointer = PointerB
  /\ Len(Staging) = 2
  /\ FirstOnScreen # BackOnScreen
  /\ Cardinality(last.preview) = 2

\* C22: set_preferred_velocities gives every agent i the preferred velocity
\* goal i minus the agent's current position, componentwise and unscaled, and
\* changes neither the positions, nor the goals, nor the obstacles (the
\* solver's and the committed list), nor the staging buffer.
C22_PreferredVelocityIsGoalVector ==
  [][last'.op = "set_preferred_velocities" =>
       /\ Len(simulation'.simulator.prefVelocities) = Len(Agents)
       /\ \A i \in 1 .. Len(Agents) :
            simulation'.simulator.prefVelocities[i] =
              <<simulation.goals[i][1] - Agents[i][1],
                simulation.goals[i][2] - Agents[i][2]>>
       /\ simulation'.simulator.agents = Agents
       /\ simulation'.goals = simulation.goals
       /\ simulation'.simulator.obstacles = simulation.simulator.obstacles
       /\ simulation'.obstacles = Committed
       /\ simulation'.staging_obstacle = Staging
    ]_vars

\* set_preferred_velocities has just run on three agents, the second agent
\* off the axis and away from its goal, with a polygon committed.
C22_Witness ==
  /\ last.op = "set_preferred_velocities"
  /\ Len(Agents) = 3
  /\ Agents[2][2] # 0
  /\ simulation.simulator.prefVelocities[2] # <<0, 0>>
  /\ simulation.simulator.prefVelocities[2] # simulation.goals[2]
  /\ Committed # <<>>

Abs(a) == IF a < 0 THEN -a ELSE a

\* toScreenSpace then fromScreenSpace, under the current camera.
WorldRoundTrip(p) ==
  fromScreenSpace(renderer_options, toScreenSpace(renderer_options, p))

\* The pixel at which a vertex staged at pointer pixel p is drawn, under the
\* current camera.
DrawnAt(p) ==
  LET s == toScreenSpace(renderer_options,
             fromScreenSpace(renderer_options,
                             Vector2(ToFloat(p[1]), ToFloat(p[2]))))
  IN <<ToPixel(s[1]), ToPixel(s[2])>>

\* The rounding of the product by the scale, carried through the quotient by
\* the scale, plus the quotient's own rounding: in hundredths.
Tolerance(scale) == Unit \div scale + 2

\* C23 as stated: at every camera with scale > 0 the round trip returns the
\* original point, and a vertex staged at a pointer pixel is drawn at that
\* pixel.
C23_RoundTripExact ==
  renderer_options.scale > 0 =>
    /\ \A p \in WorldPoints : WorldRoundTrip(p) = p
    /\ \A p \in Pixels : DrawnAt(p) = p

\* C23, amended: at every camera with scale > 0 the round trip returns the
\* original point within the tolerance of the arithmetic, and a vertex staged
\* at a pointer pixel is drawn at most one pixel from it.
C23_RoundTripWithinTolerance ==
  renderer_options.scale > 0 =>
    /\ \A p \in WorldPoints :
         /\ Abs(WorldRoundTrip(p)[1] - p[1]) <= Tolerance(renderer_options.scale)
         /\ Abs(WorldRoundTrip(p)[2] - p[2]) <= Tolerance(renderer_options.scale)
    /\ \A p \in Pixels :
         /\ Abs(DrawnAt(p)[1] - p[1]) <= 1
         /\ Abs(DrawnAt(p)[2] - p[2]) <= 1

\* A secondary-button event has just converted its pointer pixel under a
\* zoomed and dragged camera whose round trip is inexact for a world point
\* and lands one pixel off for a pointer pixel.
C23_Witness ==
  /\ last.ev = "right_click"
  /\ renderer_options.scale > 0
  /\ renderer_options.scale # DefaultRendererOptions.scale
  /\ renderer_options.offset_x # DefaultRendererOptions.offset_x
  /\ \E p \in WorldPoints : WorldRoundTrip(p) # p
  /\ \E p \in Pixels : DrawnAt(p) # p

\* C24: in a frame that finds run_simulation false, neither
\* set_preferred_velocities nor step is called and the agent positions change
\* only by a reset's initialize, while an uncaptured scroll or drag still moves
\* the camera, an uncaptured double click still stages its vertex, and the
\* secondary button and "Add Obstacle" still commit.
C24_PausedFrozenEditingLive ==
  [][~simulation_options.run_simulation =>
       /\ last'.op \notin {"set_preferred_velocities", "step"}
       /\ (simulation'.simulator.agents # simulation.simulator.agents =>
             /\ last'.op = "initialize"
             /\ last'.ev \in {"reset_button", "key_backspace"})
       /\ (last'.ev = "wheel" /\ ~last'.captured =>
             \E y \in WheelValues :
               renderer_options' =
                 [renderer_options EXCEPT !.scale = Scrolled(@, y)])
       /\ (last'.ev = "motion" /\ ~last'.captured =>
             \E rel \in MotionValues :
               renderer_options' = Dragged(renderer_options, rel))
       /\ (last'.ev = "double_click" /\ ~last'.captured =>
             simulation'.staging_obstacle = StagedWith(PointerA))
       /\ (last'.ev = "right_click" /\ ~last'.captured =>
             simulation' =
               commit_obstacle([simulation EXCEPT
                                  !.staging_obstacle = StagedWith(PointerA)]))
       /\ (last'.ev = "add_obstacle" => simulation' = commit_obstacle(simulation))
    ]_vars

\* The simulation was paused with its agents away from their starting
\* positions; a polygon is committed, a vertex is staged and a drag has just
\* moved the camera.
C24_Witness ==
  /\ ~simulation_options.run_simulation
  /\ last.ev = "motion"
  /\ ~last.captured
  /\ renderer_options.offset_x # DefaultRendererOptions.offset_x
  /\ Len(Staging) = 1
  /\ Len(Committed) = 1
  /\ Agents #
       Members(Simulation_initialize(NewSimulation, DefaultSimulationOptions))
         .simulator.agents
  /\ renderer_options.scale = DefaultRendererOptions.scale

\* The widgets that edit the configuration a reset reads.
ConfigurationEdits == {"numAgents", "circleRadius", "radius", "configuration"}

\* C25: a frame in which the user edits agent count, circle radius, agent
\* radius or scenario leaves the simulation as it was; in every step other
\* than an initialize the agent count and the goal list stay as they were,
\* and the committed obstacles too unless the step commits; and a step that
\* calls step, set_preferred_velocities or commit_obstacle leaves the
\* configuration as it was.
C25_EditsWaitForInitialize ==
  [][/\ (last'.ev \in ConfigurationEdits =>
            /\ simulation' = simulation
            /\ last'.op = "none")
     /\ (last'.op # "initialize" =>
            /\ Len(simulation'.simulator.agents) = Len(simulation.simulator.agents)
            /\ simulation'.goals = simulation.goals
            /\ (last'.op # "commit_obstacle" =>
                  simulation'.obstacles = simulation.obstacles))
     /\ (last'.op \in {"step", "set_preferred_velocities", "commit_obstacle"} =>
            simulation_options' = simulation_options)
    ]_vars

\* The agent count has just been edited to differ from the live roster, with
\* scenario, circle radius and agent radius edited earlier, while a polygon is
\* committed and the agents have moved from their starting positions.
C25_Witness ==
  /\ last.ev = "numAgents"
  /\ simulation_options.numAgents # Len(Agents)
  /\ simulation_options.configuration = DEADLOCK
  /\ simulation_options.circleRadius # DefaultSimulationOptions.circleRadius
  /\ simulation_options.radius # DefaultSimulationOptions.radius
  /\ Len(Agents) = DefaultNumAgents
  /\ Len(simulation.goals) = DefaultNumAgents
  /\ Len(Committed) = 1
  /\ Agents #
       Members(Simulation_initialize(NewSimulation, DefaultSimulationOptions))
         .simulator.agents

====
